---- MODULE Spec2Model ----
(***************************************************************************)
(* Discrete-event SSD simulator: event loop, frontend scheduler (NCQ),     *)
(* write cache, FTL stub, NAND scheduler and NAND channel/die back-end.    *)
(* One step per iteration of EventLoop.run; a handler runs to completion.  *)
(***************************************************************************)
EXTENDS Integers, Sequences, FiniteSets, TLC

\* ------------------------------------------------------------------------
\* Bounds of the explored traces
\* ------------------------------------------------------------------------
NumBody == 3
NumTxn == 3
NumAlloc == 4

\* Inputs of the trace: request kinds, LBAs and ready times.
ReqTypes == {"READ", "WRITE"}
LBAs == {0, 1, 2}
ReadyTimes == {0, 100, 600}

\* ------------------------------------------------------------------------
\* Program constants
\* ------------------------------------------------------------------------
lbas_per_page == 2
num_pages == 2
write_us == 10
cache_read_us == 10
writeback_delay == 500
read_us == 50
program_us == 200
dma_us == 5
num_channels == 2
num_dies_per_channel == 2
default_ncq_size == 32

Channels == 0 .. (num_channels - 1)
Dies == 0 .. (num_dies_per_channel - 1)
\* LBAs of the traces: the narrow set and the first LBA of one more page than
\* the cache holds.
AllLbas == LBAs \cup {num_pages * lbas_per_page}
LPAs == {l \div lbas_per_page : l \in AllLbas}
\* FTL mapping keys: logical page numbers, and LBAs passed by the frontend.
MapKeys == AllLbas \cup LPAs

VARIABLES
    time_us,            \* EventLoop.time_us
    handlers,           \* EventLoop.handlers: event kind -> handler ("none": no entry)
    until_us,           \* argument of the EventLoop.run call in progress
    returned,           \* EventLoop.run has left its loop at the bound
    ev_heap,            \* EventLoop._ev_heap (set of pending events)
    seq,                \* EventLoop._seq (next sequence number)
    requests,           \* Request objects, by id
    ncq,                \* FrontendScheduler.ncq
    ncq_size,           \* FrontendScheduler.ncq_size
    sim_requests,       \* requests of the trace whose arrival is not scheduled
    completed_requests, \* the completed log of the simulator
    cache,              \* WriteCache.cache: lpa -> page id (0: not resident)
    pages,              \* CachePage objects, by id
    cache_busy,         \* WriteCache.busy
    mapping,            \* FlashTranslationLayer.mapping
    counter,            \* FlashTranslationLayer.counter
    queue,              \* MockScheduler.queue (transaction ids)
    txns,               \* NANDTransaction objects, by id
    die_busy,           \* Channel.dies[d].busy, per channel
    chan_busy,          \* Channel.busy
    dma_queue,          \* Channel.dma_queue
    num_reads,          \* NAND.num_reads
    num_writes,         \* NAND.num_writes
    fault,              \* exception that left the last call ("none" if it returned)
    hist                \* observation record for the properties

vars == << time_us, handlers, until_us, returned, ev_heap, seq, requests, ncq, ncq_size, sim_requests,
           completed_requests, cache, pages, cache_busy, mapping, counter,
           queue, txns, die_busy, chan_busy, dma_queue, num_reads, num_writes,
           fault, hist >>

\* ------------------------------------------------------------------------
\* The program state as one record, so that handlers compose.
\* ------------------------------------------------------------------------
State ==
    [ time_us |-> time_us, handlers |-> handlers, ev_heap |-> ev_heap, seq |-> seq,
      requests |-> requests, ncq |-> ncq, ncq_size |-> ncq_size,
      sim_requests |-> sim_requests, completed_requests |-> completed_requests,
      cache |-> cache, pages |-> pages, cache_busy |-> cache_busy,
      mapping |-> mapping, counter |-> counter, queue |-> queue, txns |-> txns,
      die_busy |-> die_busy, chan_busy |-> chan_busy, dma_queue |-> dma_queue,
      num_reads |-> num_reads, num_writes |-> num_writes, fault |-> fault,
      hist |-> hist ]

Commit(s) ==
    /\ time_us' = s.time_us
    /\ handlers' = s.handlers
    /\ UNCHANGED << until_us, returned >>
    /\ ev_heap' = s.ev_heap
    /\ seq' = s.seq
    /\ requests' = s.requests
    /\ ncq' = s.ncq
    /\ ncq_size' = s.ncq_size
    /\ sim_requests' = s.sim_requests
    /\ completed_requests' = s.completed_requests
    /\ cache' = s.cache
    /\ pages' = s.pages
    /\ cache_busy' = s.cache_busy
    /\ mapping' = s.mapping
    /\ counter' = s.counter
    /\ queue' = s.queue
    /\ txns' = s.txns
    /\ die_busy' = s.die_busy
    /\ chan_busy' = s.chan_busy
    /\ dma_queue' = s.dma_queue
    /\ num_reads' = s.num_reads
    /\ num_writes' = s.num_writes
    /\ fault' = s.fault
    /\ hist' = s.hist

\* An exception leaves the state as mutated so far and ends the call.
Raise(s, what) == IF s.fault = "none" THEN [s EXCEPT !.fault = what] ELSE s

\* ------------------------------------------------------------------------
\* event.py
\* ------------------------------------------------------------------------
NoEvent == [time_us |-> -1, seq |-> -1]

\* until_us=None
NoBound == -1

EventTypes ==
    {"REQUEST_ARRIVAL", "REQUEST_COMPLETE", "DMA_COMPLETE", "NAND_READ_COMPLETE",
     "NAND_WRITE_COMPLETE", "CACHE_READ_COMPLETE", "CACHE_WRITE_COMPLETE",
     "CACHE_FLUSH_START", "CACHE_FLUSH_COMPLETE", "FRONTEND_SCHEDULE", "NAND_SCHEDULE"}

\* EventLoop.__init__: the empty handler table
NoHandlers == [k \in EventTypes |-> "none"]

\* variant of register_handler: a second registration replaces the first
register_handler_replace(s, ev_type, handler) ==
    [s EXCEPT !.handlers[ev_type] = handler]

register_handler(s, ev_type, handler) ==
    IF s.handlers[ev_type] # "none" THEN Raise(s, "Handler already registered")
    ELSE [s EXCEPT !.handlers[ev_type] = handler]

\* what the properties remember of the last dispatched event
NoDispatch == [time_us |-> -1, seq |-> -1, ord |-> -1, ev_type |-> "none"]

\* ord: position of the schedule_event call among all such calls (observation)
Event(t, ty, p, n, o) ==
    [time_us |-> t, seq |-> n, ev_type |-> ty, payload |-> p, canceled |-> FALSE,
     ord |-> o]

\* dataclass(order=True): events compare on (time_us, seq)
EventLess(a, b) ==
    \/ a.time_us < b.time_us
    \/ a.time_us = b.time_us /\ a.seq < b.seq

EventEq(a, b) == a.time_us = b.time_us /\ a.seq = b.seq

schedule_event(s, t, ty, p) ==
    [s EXCEPT !.ev_heap = @ \cup {Event(t, ty, p, s.seq, s.hist.nsched)},
              !.seq = @ + 1,
              !.hist.nsched = @ + 1]

cancel_event(s, ev) ==
    [s EXCEPT !.ev_heap = {IF EventEq(e, ev) THEN [e EXCEPT !.canceled = TRUE] ELSE e : e \in @},
              !.hist.canceled = @ \cup {ev.seq}]

\* variant of heappop: ties on time_us are broken last-in first-out
heappop_lifo(heap) ==
    CHOOSE e \in heap : \A f \in heap :
        f = e \/ e.time_us < f.time_us \/ (e.time_us = f.time_us /\ e.seq > f.seq)

\* heapq.heappop: the least pending event
heappop(heap) == CHOOSE e \in heap : \A f \in heap : f = e \/ EventLess(e, f)

\* ------------------------------------------------------------------------
\* ftl.py
\* ------------------------------------------------------------------------
PhysicalAddress(ch, d, pl, b, pg) ==
    [channel |-> ch, die |-> d, plane |-> pl, block |-> b, page |-> pg]

\* "lpa not in self.mapping"
NoPA == PhysicalAddress(0, 0, 0, 0, -1)

lba_to_lpa(lba) == lba \div lbas_per_page

\* variant of allocate: the counter is not advanced
allocate_without_counter(s, lpa) ==
    [s EXCEPT !.mapping[lpa] = PhysicalAddress(0, 0, 0, 0, s.counter),
              !.hist.allocated = Append(@, PhysicalAddress(0, 0, 0, 0, s.counter))]

\* hist.allocated: the addresses returned so far, in call order (observation)
allocate(s, lpa) ==
    [s EXCEPT !.mapping[lpa] = PhysicalAddress(0, 0, 0, 0, s.counter),
              !.counter = @ + 1,
              !.hist.allocated = Append(@, PhysicalAddress(0, 0, 0, 0, s.counter))]

clear(s) == [s EXCEPT !.mapping = [k \in DOMAIN s.mapping |-> NoPA]]

\* lpa_to_ppa allocates when the key is unmapped; the state after the call
lpa_to_ppa_state(s, lpa) ==
    IF s.mapping[lpa] = NoPA THEN allocate(s, lpa) ELSE s

lpa_to_ppa(s, lpa) == lpa_to_ppa_state(s, lpa).mapping[lpa]

\* ------------------------------------------------------------------------
\* nand.py
\* ------------------------------------------------------------------------
\* callback: TRUE when the transaction carries a callback (the field defaults
\* to None, and no transaction built by the cache or the frontend sets it); a
\* callback is its owner's function, which is called and returns.
\* Observations kept with a transaction: state ("queued" | "inflight" |
\* "done"), submit_time, done_time, and for a writeback the seq of the flush
\* event that created it (origin) and the number of puts its page had seen
\* (gen).
NANDTransaction(ty, pa, payload, origin, gen, now) ==
    [type |-> ty, pa |-> pa, start_time |-> 0, payload |-> payload,
     callback |-> FALSE,
     state |-> "queued", origin |-> origin, gen |-> gen, submit_time |-> now,
     done_time |-> -1]

is_ready(s, pa) == ~s.die_busy[pa.channel][pa.die]

\* The channel builds its events as Event(time, description=..., payload=...,
\* callback=...); the Event dataclass has no such fields and requires ev_type,
\* so the construction raises TypeError and nothing is scheduled.
do_dma(s, tid) ==
    LET ch == s.txns[tid].pa.channel IN
    IF s.chan_busy[ch]
    THEN [s EXCEPT !.dma_queue[ch] = Append(@, tid)]
    ELSE Raise([s EXCEPT !.chan_busy[ch] = TRUE], "TypeError")

write_page(s, tid) ==
    LET pa == s.txns[tid].pa
        s1 == [s EXCEPT !.num_writes = @ + 1]
    IN  IF ~is_ready(s1, pa) THEN Raise(s1, "NAND die is busy")
        ELSE do_dma([s1 EXCEPT !.die_busy[pa.channel][pa.die] = TRUE,
                               !.txns[tid].state = "inflight"], tid)

read_page(s, tid) ==
    LET pa == s.txns[tid].pa
        s1 == [s EXCEPT !.num_reads = @ + 1]
    IN  IF ~is_ready(s1, pa) THEN Raise(s1, "NAND die is busy")
        ELSE Raise([s1 EXCEPT !.die_busy[pa.channel][pa.die] = TRUE,
                              !.txns[tid].state = "inflight"], "TypeError")

read_transfer_done_callback(s, tid) ==
    LET pa == s.txns[tid].pa
        s1 == [s EXCEPT !.die_busy[pa.channel][pa.die] = FALSE,
                        !.txns[tid].state = "done",
                        !.txns[tid].done_time = s.time_us]
    IN  IF ~s.txns[tid].callback THEN Raise(s1, "AssertionError") ELSE s1

write_transfer_done_callback(s, tid) == Raise(s, "TypeError")

handle_dma_complete(s, ev) ==
    LET tid == ev.payload
        ch == s.txns[tid].pa.channel
    IN  IF s.dma_queue[ch] # << >>
        THEN Raise([s EXCEPT !.dma_queue[ch] = Tail(@)], "TypeError")
        ELSE LET s1 == [s EXCEPT !.chan_busy[ch] = FALSE] IN
             CASE s.txns[tid].type = "READ" -> read_transfer_done_callback(s1, tid)
               [] s.txns[tid].type = "WRITE" -> write_transfer_done_callback(s1, tid)
               [] OTHER -> s1

read_done_callback(s, ev) == do_dma(s, ev.payload)

write_done_callback(s, ev) ==
    LET tid == ev.payload
        pa == s.txns[tid].pa
        s1 == [s EXCEPT !.die_busy[pa.channel][pa.die] = FALSE,
                        !.txns[tid].state = "done",
                        !.txns[tid].done_time = s.time_us]
    IN  IF ~s.txns[tid].callback THEN Raise(s1, "AssertionError") ELSE s1

\* ------------------------------------------------------------------------
\* nand_scheduler.py
\* ------------------------------------------------------------------------
submit(s, txn) ==
    [s EXCEPT !.txns = Append(@, txn),
              !.queue = Append(@, Len(s.txns) + 1)]

\* MockScheduler defines submit and no enqueue: the attribute lookup in
\* "self.nand_scheduler.enqueue(transaction)" raises, after the transaction
\* was built, and nothing is queued.
enqueue(s, txn) == Raise(s, "AttributeError")

\* the head is popped and stamped, then handed to the NAND by its type
start_transaction(s, tid) ==
    LET s1 == [s EXCEPT !.txns[tid].start_time = s.time_us,
                        !.hist.started = Append(@, tid)]
    IN  CASE s.txns[tid].type = "WRITE" -> write_page(s1, tid)
          [] s.txns[tid].type = "READ" -> read_page(s1, tid)
          [] OTHER -> Raise(s1, "NotImplementedError")

\* variant of try_dispatch: dispatches the oldest transaction whose die is ready
try_dispatch_first_ready(s) ==
    LET ready == {i \in 1 .. Len(s.queue) : is_ready(s, s.txns[s.queue[i]].pa)} IN
    IF ready = {} THEN s
    ELSE LET i == CHOOSE k \in ready : \A j \in ready : k <= j IN
         start_transaction([s EXCEPT !.queue = SubSeq(@, 1, i - 1)
                                               \o SubSeq(@, i + 1, Len(@))],
                           s.queue[i])

\* variant of try_dispatch: dispatches the head without asking is_ready
try_dispatch_without_ready_check(s) ==
    IF s.queue = << >> THEN s
    ELSE start_transaction([s EXCEPT !.queue = Tail(@)], Head(s.queue))

\* hist.started: the transactions popped, in order; hist.held: the head that
\* the last call left in the queue because its die was busy (observations)
try_dispatch(s) ==
    IF s.queue = << >> THEN s
    ELSE LET tid == Head(s.queue) IN
         IF is_ready(s, s.txns[tid].pa)
         THEN start_transaction([s EXCEPT !.queue = Tail(@)], tid)
         ELSE [s EXCEPT !.hist.held = tid]

\* ------------------------------------------------------------------------
\* cache.py
\* ------------------------------------------------------------------------
CachePage(lpa) ==
    [lpa |-> lpa, status |-> "DIRTY", lbas |-> {}, latest_flush_event |-> NoEvent]

\* per-page observations: number of puts, of flush events canceled by a put,
\* of flush starts that got past their assertions, and the time of the last
\* write complete
PageHist == [puts |-> 0, cancels |-> 0, flushes |-> 0, last_cwc |-> -1]

Resident(s) == {l \in LPAs : s.cache[l] # 0}

contains(s, lba) ==
    LET lpa == lba_to_lpa(lba) IN
    s.cache[lpa] # 0 /\ lba \in s.pages[s.cache[lpa]].lbas

\* variant of can_hold: the number of resident pages is not looked at
can_hold_always(s, lba) == TRUE

can_hold(s, lba) ==
    LET lpa == lba_to_lpa(lba) IN
    s.cache[lpa] # 0 \/ Cardinality(Resident(s)) < num_pages

get(s, rid) ==
    LET lba == s.requests[rid].lba IN
    IF s.cache_busy THEN Raise(s, "Cache is busy")
    ELSE IF ~contains(s, lba) THEN Raise(s, "LBA not in cache")
    ELSE schedule_event([s EXCEPT !.cache_busy = TRUE,
                                  !.hist.issued[rid] = "get"],
                        s.time_us + cache_read_us, "CACHE_READ_COMPLETE", rid)

\* variant of put_page: a scheduled flush is not canceled on re-dirty
put_page_without_cancel(s, rid) ==
    LET lba == s.requests[rid].lba
        lpa == lba_to_lpa(lba)
        s2 == IF s.cache[lpa] = 0
              THEN [s EXCEPT !.pages = Append(@, CachePage(lpa)),
                             !.hist.page = Append(@, PageHist),
                             !.cache[lpa] = Len(s.pages) + 1]
              ELSE s
        pid == s2.cache[lpa]
        s4 == [s2 EXCEPT !.pages[pid].status = "DIRTY",
                         !.hist.page[pid].puts = @ + 1]
    IN  schedule_event(s4, s.time_us + write_us, "CACHE_WRITE_COMPLETE", rid)

\* put, once admitted: locate or create the page, cancel a scheduled flush,
\* mark the page dirty and schedule the write completion
put_page(s, rid) ==
    LET lba == s.requests[rid].lba
        lpa == lba_to_lpa(lba)
        s2 == IF s.cache[lpa] = 0
              THEN [s EXCEPT !.pages = Append(@, CachePage(lpa)),
                             !.hist.page = Append(@, PageHist),
                             !.cache[lpa] = Len(s.pages) + 1]
              ELSE s
        pid == s2.cache[lpa]
        page == s2.pages[pid]
        \* cancel scheduled flush if still possible
        s3 == IF page.status = "FLUSH_SCHEDULED"
              THEN IF page.latest_flush_event = NoEvent
                   THEN Raise(s2, "AssertionError")
                   ELSE [cancel_event(s2, page.latest_flush_event)
                           EXCEPT !.hist.page[pid].cancels = @ + 1]
              ELSE s2
        s4 == [s3 EXCEPT !.pages[pid].status = "DIRTY",
                         !.hist.page[pid].puts = @ + 1]
    IN  IF s3.fault # "none" THEN s3
        ELSE schedule_event(s4, s.time_us + write_us, "CACHE_WRITE_COMPLETE", rid)

\* variant of put: the port is not marked busy
put_without_busy(s, rid) ==
    IF s.cache_busy THEN Raise(s, "Cache is busy")
    ELSE IF ~can_hold(s, s.requests[rid].lba) THEN Raise(s, "Cache is full")
    ELSE put_page([s EXCEPT !.hist.issued[rid] = "put"], rid)

put(s, rid) ==
    IF s.cache_busy THEN Raise(s, "Cache is busy")
    ELSE IF ~can_hold(s, s.requests[rid].lba) THEN Raise(s, "Cache is full")
    ELSE put_page([s EXCEPT !.cache_busy = TRUE, !.hist.issued[rid] = "put"], rid)

handle_cache_read_complete(s, ev) ==
    schedule_event([s EXCEPT !.cache_busy = FALSE],
                   s.time_us, "REQUEST_COMPLETE", ev.payload)

\* variant of handle_cache_write_complete: the flush event is not recorded
handle_cache_write_complete_without_record(s, ev) ==
    LET rid == ev.payload
        s1 == schedule_event([s EXCEPT !.cache_busy = FALSE,
                                       !.hist.cwc = @ \cup {rid}],
                             s.time_us, "REQUEST_COMPLETE", rid)
        s2 == schedule_event(s1, s.time_us, "FRONTEND_SCHEDULE", -1)
        lba == s.requests[rid].lba
        lpa == lba_to_lpa(lba)
        pid == s2.cache[lpa]
    IN  IF pid = 0 THEN Raise(s2, "KeyError")
        ELSE LET s3 == [s2 EXCEPT !.pages[pid].lbas = @ \cup {lba},
                                  !.pages[pid].status = "FLUSH_SCHEDULED",
                                  !.hist.page[pid].last_cwc = s.time_us]
             IN  schedule_event(s3, s.time_us + writeback_delay,
                                "CACHE_FLUSH_START", pid)

handle_cache_write_complete(s, ev) ==
    LET rid == ev.payload
        s1 == schedule_event([s EXCEPT !.cache_busy = FALSE,
                                       !.hist.cwc = @ \cup {rid}],
                             s.time_us, "REQUEST_COMPLETE", rid)
        s2 == schedule_event(s1, s.time_us, "FRONTEND_SCHEDULE", -1)
        lba == s.requests[rid].lba
        lpa == lba_to_lpa(lba)
        pid == s2.cache[lpa]
    IN  IF pid = 0 THEN Raise(s2, "KeyError")
        ELSE LET s3 == [s2 EXCEPT !.pages[pid].lbas = @ \cup {lba},
                                  !.pages[pid].status = "FLUSH_SCHEDULED",
                                  !.hist.page[pid].last_cwc = s.time_us]
                 s4 == schedule_event(s3, s.time_us + writeback_delay,
                                      "CACHE_FLUSH_START", pid)
             IN  [s4 EXCEPT !.pages[pid].latest_flush_event =
                                [time_us |-> s.time_us + writeback_delay,
                                 seq |-> s3.seq]]

handle_writeback_start(s, ev) ==
    LET pid == ev.payload
        page == s.pages[pid]
    IN  IF s.cache_busy THEN Raise(s, "Cache is busy")
        ELSE IF s.cache[page.lpa] = 0 THEN Raise(s, "LPA not in cache")
        ELSE LET s1 == [s EXCEPT !.pages[pid].status = "FLUSHING",
                                  !.hist.page[pid].flushes = @ + 1]
                 s2 == allocate(s1, page.lpa)
             IN  enqueue(s2, NANDTransaction("WRITE", s2.mapping[page.lpa], pid,
                                             ev.seq, s.hist.page[pid].puts,
                                             s.time_us))

\* variant of handle_writeback_complete: every completed writeback evicts
handle_writeback_complete_always_evict(s, ev) ==
    LET tid == ev.payload
        page == s.pages[s.txns[tid].payload]
    IN  [s EXCEPT !.hist.wb_done = @ \cup {tid}, !.cache[page.lpa] = 0]

handle_writeback_complete(s, ev) ==
    LET tid == ev.payload
        pid == s.txns[tid].payload
        page == s.pages[pid]
        s1 == [s EXCEPT !.hist.wb_done = @ \cup {tid}]
    IN  IF page.status = "FLUSHING" /\ EventEq(ev, page.latest_flush_event)
        THEN IF s.cache[page.lpa] = 0 THEN Raise(s1, "KeyError")
             ELSE [s1 EXCEPT !.cache[page.lpa] = 0]
        ELSE s1

\* ------------------------------------------------------------------------
\* request.py
\* ------------------------------------------------------------------------
Request(ty, lba, arrival_time) ==
    [type |-> ty, status |-> "READY", fua |-> FALSE, lba |-> lba,
     arrival_time |-> arrival_time, enqueue_time |-> -1, completion_time |-> -1]

\* ------------------------------------------------------------------------
\* simulator.py
\* ------------------------------------------------------------------------
Min(a, b) == IF a <= b THEN a ELSE b

\* The frontend holds the simulator as self.sim and calls
\* self.sim.complete(request).  SSDSimulator defines handle_completion and no
\* complete: the attribute lookup raises, nothing is logged and no further
\* arrival is scheduled.
sim_complete(s, rid) == Raise(s, "AttributeError")

\* ------------------------------------------------------------------------
\* frontend_scheduler.py
\* ------------------------------------------------------------------------
has_space(s) == Len(s.ncq) < s.ncq_size

\* list.remove: drops the first occurrence
RECURSIVE Remove(_, _)
Remove(q, x) ==
    IF q = << >> THEN << >>
    ELSE IF Head(q) = x THEN Tail(q)
    ELSE << Head(q) >> \o Remove(Tail(q), x)

InSeq(q, x) == \E i \in 1 .. Len(q) : q[i] = x

\* variant of issue_read: the cache is not consulted
issue_read_always_nand(s, rid) ==
    LET s1 == [s EXCEPT !.requests[rid].status = "IN_PROGRESS",
                        !.hist.issued[rid] = "nand"]
    IN  enqueue(lpa_to_ppa_state(s1, s.requests[rid].lba),
                NANDTransaction("READ", lpa_to_ppa(s1, s.requests[rid].lba), rid,
                                -1, -1, s.time_us))

\* variant of issue_read: a READ that misses the cache is left waiting
issue_read_without_nand(s, rid) ==
    LET r == s.requests[rid] IN
    IF contains(s, r.lba)
    THEN IF s.cache_busy THEN s
         ELSE get([s EXCEPT !.requests[rid].status = "IN_PROGRESS"], rid)
    ELSE s

\* A READ that passed the hazard check: cache hit or NAND read
issue_read(s, rid) ==
    LET r == s.requests[rid] IN
    IF contains(s, r.lba)
    THEN IF s.cache_busy THEN s
         ELSE get([s EXCEPT !.requests[rid].status = "IN_PROGRESS"], rid)
    ELSE LET s1 == [s EXCEPT !.requests[rid].status = "IN_PROGRESS",
                             !.hist.issued[rid] = "nand"]
             \* the LBA itself is passed as the logical page number
             s2 == lpa_to_ppa_state(s1, r.lba)
             pa == lpa_to_ppa(s1, r.lba)
         IN  enqueue(s2, NANDTransaction("READ", pa, rid, -1, -1, s.time_us))

\* variant of schedule_read: the RAW check against dirty_lbas is left out
schedule_read_without_hazard_check(s, rid, dirty_lbas) ==
    IF s.requests[rid].status # "READY" THEN s ELSE issue_read(s, rid)

\* One READ of the walk over the NCQ
schedule_read(s, rid, dirty_lbas) ==
    LET r == s.requests[rid] IN
    IF r.status # "READY" \/ r.lba \in dirty_lbas THEN s
    ELSE issue_read(s, rid)

\* variant of schedule_write: the request is put without being marked
schedule_write_without_mark(s, rid) ==
    LET r == s.requests[rid] IN
    IF r.status # "READY" \/ s.cache_busy \/ ~can_hold(s, r.lba) THEN s
    ELSE put(s, rid)

\* variant of schedule_write: the cache is not asked whether it is busy
schedule_write_without_busy_check(s, rid) ==
    LET r == s.requests[rid] IN
    IF r.status # "READY" \/ ~can_hold(s, r.lba) THEN s
    ELSE put([s EXCEPT !.requests[rid].status = "IN_PROGRESS"], rid)

\* One WRITE of the walk over the NCQ
schedule_write(s, rid) ==
    LET r == s.requests[rid] IN
    IF r.status # "READY" \/ s.cache_busy \/ ~can_hold(s, r.lba) THEN s
    ELSE put([s EXCEPT !.requests[rid].status = "IN_PROGRESS"], rid)

\* variant of schedule_from: a request that is neither READ nor WRITE is skipped
RECURSIVE schedule_from_skip_unsupported(_, _, _)
schedule_from_skip_unsupported(s, i, dirty_lbas) ==
    IF s.fault # "none" \/ i > Len(s.ncq) THEN s
    ELSE LET rid == s.ncq[i]
             r == s.requests[rid]
         IN  CASE r.type = "READ" ->
                    schedule_from_skip_unsupported(schedule_read(s, rid, dirty_lbas),
                                                   i + 1, dirty_lbas)
               [] r.type = "WRITE" ->
                    schedule_from_skip_unsupported(schedule_write(s, rid), i + 1,
                                                   dirty_lbas \cup {r.lba})
               [] OTHER -> schedule_from_skip_unsupported(s, i + 1, dirty_lbas)

RECURSIVE schedule_from(_, _, _)
schedule_from(s, i, dirty_lbas) ==
    IF s.fault # "none" \/ i > Len(s.ncq) THEN s
    ELSE LET rid == s.ncq[i]
             r == s.requests[rid]
         IN  CASE r.type = "READ" ->
                    schedule_from(schedule_read(s, rid, dirty_lbas), i + 1, dirty_lbas)
               [] r.type = "WRITE" ->
                    schedule_from(schedule_write(s, rid), i + 1,
                                  dirty_lbas \cup {r.lba})
               [] OTHER -> Raise(s, "NotImplementedError")

schedule(s) == schedule_from(s, 1, {})

handle_arrival(s, ev) ==
    LET rid == ev.payload IN
    IF ~has_space(s) THEN Raise(s, "NCQ is full")
    ELSE schedule([s EXCEPT !.requests[rid].enqueue_time = s.time_us,
                            !.ncq = Append(@, rid),
                            !.hist.arr = Append(@, rid)])

complete_request(s, rid) ==
    LET s1 == [s EXCEPT !.requests[rid].completion_time = s.time_us,
                        !.requests[rid].status = "COMPLETED"]
    IN  IF ~InSeq(s1.ncq, rid) THEN Raise(s1, "ValueError")
        ELSE LET s2 == sim_complete([s1 EXCEPT !.ncq = Remove(@, rid)], rid)
             IN  IF s2.fault # "none" THEN s2 ELSE schedule(s2)

handle_nand_read_complete(s, ev) == complete_request(s, s.txns[ev.payload].payload)

handle_completion(s, ev) == complete_request(s, ev.payload)

\* ------------------------------------------------------------------------
\* Initial states: the components are constructed on one event loop, the
\* driver schedules the REQUEST_ARRIVAL of the first ncq_size requests of a
\* trace, keeps the rest, and calls run().
\* ------------------------------------------------------------------------
NcqSizes == {default_ncq_size}

BodyReq == [type : ReqTypes, lba : LBAs, t : ReadyTimes]
Bodies == {b \in [1 .. NumBody -> BodyReq] :
              \A i \in 1 .. (NumBody - 1) : b[i].t <= b[i + 1].t}

Trace(b) == [i \in 1 .. NumBody |-> Request(b[i].type, b[i].lba, b[i].t)]

InitHist(n) ==
    [nsched |-> 0, canceled |-> {}, fired |-> {}, last |-> NoDispatch, arr |-> << >>,
     issued |-> [i \in 1 .. n |-> "none"], cwc |-> {}, wb_done |-> {},
     page |-> << >>, started |-> << >>, held |-> 0, allocated |-> << >>]

\* schedule_event called for the first requests, in trace order, and
\* cancel_event called for those of `dropped`
schedule_and_cancel(trace, size, dropped) ==
    LET n == Len(trace)
        first == Min(n, size)
    IN  /\ requests = trace
        /\ ncq_size = size
        /\ ev_heap = {[Event(trace[i].arrival_time, "REQUEST_ARRIVAL", i, i - 1, i - 1)
                          EXCEPT !.canceled = (i \in dropped)] : i \in 1 .. first}
        /\ seq = first
        /\ sim_requests = [i \in 1 .. (n - first) |-> first + i]
        /\ hist = [InitHist(n) EXCEPT !.nsched = first,
                                      !.canceled = {i - 1 : i \in dropped \cap (1 .. first)}]

\* variant of schedule_arrivals: the arrival of every request is scheduled
schedule_arrivals_whole_trace(trace, size) ==
    LET n == Len(trace) IN
    /\ requests = trace
    /\ ncq_size = size
    /\ ev_heap = {Event(trace[i].arrival_time, "REQUEST_ARRIVAL", i, i - 1, i - 1) :
                     i \in 1 .. n}
    /\ seq = n
    /\ sim_requests = << >>
    /\ hist = [InitHist(n) EXCEPT !.nsched = n]

\* variant of schedule_arrivals: every arrival is scheduled for time 0
schedule_arrivals_at_once(trace, size) ==
    LET n == Len(trace)
        first == Min(n, size)
    IN  /\ requests = trace
        /\ ncq_size = size
        /\ ev_heap = {Event(0, "REQUEST_ARRIVAL", i, i - 1, i - 1) : i \in 1 .. first}
        /\ seq = first
        /\ sim_requests = [i \in 1 .. (n - first) |-> first + i]
        /\ hist = [InitHist(n) EXCEPT !.nsched = first]

\* the driver schedules the arrivals and cancels none
schedule_arrivals(trace, size) == schedule_and_cancel(trace, size, {})

\* WriteCache.__init__ and FrontendScheduler.__init__ register their handlers
CacheRegistrations ==
    << << "CACHE_READ_COMPLETE", "WriteCache._handle_cache_read_complete" >>,
       << "CACHE_WRITE_COMPLETE", "WriteCache._handle_cache_write_complete" >>,
       << "CACHE_FLUSH_START", "WriteCache._handle_writeback_start" >>,
       << "NAND_WRITE_COMPLETE", "WriteCache._handle_writeback_complete" >> >>

FrontendRegistrations ==
    << << "REQUEST_ARRIVAL", "FrontendScheduler._handle_arrival" >>,
       << "FRONTEND_SCHEDULE", "FrontendScheduler._schedule" >>,
       << "NAND_READ_COMPLETE", "FrontendScheduler._handle_nand_read_complete" >>,
       << "REQUEST_COMPLETE", "FrontendScheduler._handle_completion" >> >>

\* the register_handler calls of a constructor, in order; an exception ends them
RECURSIVE register_all(_, _)
register_all(s, regs) ==
    IF regs = << >> \/ s.fault # "none" THEN s
    ELSE register_all(register_handler(s, Head(regs)[1], Head(regs)[2]), Tail(regs))

cache_init(s) == register_all(s, CacheRegistrations)

frontend_init(s) == register_all(s, FrontendRegistrations)

\* the handler table after both constructors ran on a new event loop
ComponentHandlers ==
    frontend_init(cache_init([handlers |-> NoHandlers, fault |-> "none"])).handlers

\* the components as their constructors leave them
Components ==
    /\ time_us = 0
    /\ handlers = ComponentHandlers
    /\ ncq = << >>
    /\ completed_requests = << >>
    /\ cache = [l \in LPAs |-> 0]
    /\ pages = << >>
    /\ cache_busy = FALSE
    /\ mapping = [k \in MapKeys |-> NoPA]
    /\ counter = 0
    /\ queue = << >>
    /\ txns = << >>
    /\ die_busy = [c \in Channels |-> [d \in Dies |-> FALSE]]
    /\ chan_busy = [c \in Channels |-> FALSE]
    /\ dma_queue = [c \in Channels |-> << >>]
    /\ num_reads = 0
    /\ num_writes = 0
    /\ fault = "none"

\* the components constructed and run() called with no bound
Constructed ==
    /\ Components
    /\ until_us = NoBound
    /\ returned = FALSE

Init ==
    /\ Constructed
    /\ \E b \in Bodies, size \in NcqSizes : schedule_arrivals(Trace(b), size)

\* Traces over one more logical page than the cache holds, in which the trace
\* builder may set fua on a WRITE after constructing it.
WideLbas == {p * lbas_per_page : p \in 0 .. num_pages}
WideReq == {r \in [type : ReqTypes, lba : WideLbas, t : ReadyTimes, fua : BOOLEAN] :
               r.fua => r.type = "WRITE"}
WideBodies == {b \in [1 .. NumBody -> WideReq] :
                  \A i \in 1 .. (NumBody - 1) : b[i].t <= b[i + 1].t}

WideTrace(b) ==
    [i \in 1 .. NumBody |->
        [Request(b[i].type, b[i].lba, b[i].t) EXCEPT !.fua = b[i].fua]]

InitWide ==
    /\ Constructed
    /\ \E b \in WideBodies, size \in NcqSizes : schedule_arrivals(WideTrace(b), size)

\* Traces longer than the NCQ, with ready times in any order: the first
\* ncq_size arrivals are scheduled and the rest is kept.
SmallNcqSizes == 1 .. NumBody
NcqLbas == 0 .. (lbas_per_page - 1)
NcqReq == [type : ReqTypes, lba : NcqLbas, t : ReadyTimes]
NcqBodies == [1 .. NumBody -> NcqReq]

NcqTrace(b) == [i \in 1 .. NumBody |-> Request(b[i].type, b[i].lba, b[i].t)]

InitNcq ==
    /\ Constructed
    /\ \E b \in NcqBodies, size \in SmallNcqSizes : schedule_arrivals(NcqTrace(b), size)

\* Traces in which any request may be a FLUSH.
FlushReq == BodyReq \cup [type : {"FLUSH"}, lba : {0}, t : ReadyTimes]
FlushBodies == {b \in [1 .. NumBody -> FlushReq] :
                   \A i \in 1 .. (NumBody - 1) : b[i].t <= b[i + 1].t}

FlushTrace(b) == [i \in 1 .. NumBody |-> Request(b[i].type, b[i].lba, b[i].t)]

InitFlush ==
    /\ Constructed
    /\ \E b \in FlushBodies, size \in NcqSizes : schedule_arrivals(FlushTrace(b), size)

\* A client of the event loop: it schedules the arrivals of a trace, cancels
\* any of them, calls run(until_us), and run() when that has returned.
Untils == {0, write_us, writeback_delay}
UntilBodies == {b \in NcqBodies : \A i \in 1 .. (NumBody - 1) : b[i].t <= b[i + 1].t}

InitUntil ==
    /\ Components
    /\ until_us \in Untils
    /\ returned = FALSE
    /\ \E b \in UntilBodies, size \in NcqSizes, dropped \in SUBSET (1 .. NumBody) :
          schedule_and_cancel(NcqTrace(b), size, dropped)

\* A new event loop on which the cache and the frontend are constructed, in
\* either order, and on which a client registers handlers of its own.
ClientKinds == {"CACHE_FLUSH_START", "REQUEST_ARRIVAL", "CACHE_FLUSH_COMPLETE", "NAND_SCHEDULE"}
ClientHandlers == {"client_a", "client_b"}

InitHandlers ==
    /\ time_us = 0
    /\ handlers = NoHandlers
    /\ until_us = NoBound
    /\ returned = FALSE
    /\ ev_heap = {}
    /\ seq = 0
    /\ requests = << >>
    /\ ncq = << >>
    /\ ncq_size = default_ncq_size
    /\ sim_requests = << >>
    /\ completed_requests = << >>
    /\ cache = [l \in LPAs |-> 0]
    /\ pages = << >>
    /\ cache_busy = FALSE
    /\ mapping = [k \in MapKeys |-> NoPA]
    /\ counter = 0
    /\ queue = << >>
    /\ txns = << >>
    /\ die_busy = [c \in Channels |-> [d \in Dies |-> FALSE]]
    /\ chan_busy = [c \in Channels |-> FALSE]
    /\ dma_queue = [c \in Channels |-> << >>]
    /\ num_reads = 0
    /\ num_writes = 0
    /\ fault = "none"
    /\ hist = InitHist(0)

\* The NAND and its scheduler on their own: a client submits transactions,
\* with or without a callback, for any die.
NandTypes == {"READ", "WRITE", "FLUSH"}
ClientPAs == {PhysicalAddress(c, d, 0, 0, 0) : c \in Channels, d \in Dies}

InitNand == InitHandlers

\* A new FlashTranslationLayer whose client calls allocate and lpa_to_ppa.
InitFtl == InitHandlers

\* ------------------------------------------------------------------------
\* EventLoop.run: one iteration of the loop per step
\* ------------------------------------------------------------------------
NextEvent == heappop(ev_heap)

\* variant of WithinBound: the bound is not looked at
WithinBound_always == TRUE

\* "until_us is not None and event.time_us > until_us" is false
WithinBound == until_us = NoBound \/ NextEvent.time_us <= until_us

\* the loop goes on to skip or dispatch the event at the top of the heap
Running == fault = "none" /\ ev_heap # {} /\ ~returned /\ WithinBound

\* variant of Begin: the clock is left where it was
Begin_without_clock(e) ==
    [State EXCEPT !.ev_heap = @ \ {e},
                  !.hist.fired = @ \cup {e.seq},
                  !.hist.last = [time_us |-> e.time_us, seq |-> e.seq,
                                 ord |-> e.ord, ev_type |-> e.ev_type]]

\* the state in which the handler of e starts
Begin(e) ==
    [State EXCEPT !.ev_heap = @ \ {e}, !.time_us = e.time_us,
                  !.hist.fired = @ \cup {e.seq},
                  !.hist.last = [time_us |-> e.time_us, seq |-> e.seq,
                                 ord |-> e.ord, ev_type |-> e.ev_type]]

\* variant of IsCanceled: the flag is not looked at
IsCanceled_never(e) == FALSE

\* "if event.canceled: continue"
IsCanceled(e) == e.canceled

\* "handler = self.handlers.get(event.ev_type); if handler: handler(event)":
\* the handler registered for the kind of the event is called; an event of a
\* kind without a handler is dispatched and nothing is called
call_handler(s, e) ==
    LET handler == s.handlers[e.ev_type] IN
    CASE handler = "FrontendScheduler._handle_arrival" -> handle_arrival(s, e)
      [] handler = "FrontendScheduler._schedule" -> schedule(s)
      [] handler = "FrontendScheduler._handle_nand_read_complete" ->
             handle_nand_read_complete(s, e)
      [] handler = "FrontendScheduler._handle_completion" -> handle_completion(s, e)
      [] handler = "WriteCache._handle_cache_read_complete" ->
             handle_cache_read_complete(s, e)
      [] handler = "WriteCache._handle_cache_write_complete" ->
             handle_cache_write_complete(s, e)
      [] handler = "WriteCache._handle_writeback_start" -> handle_writeback_start(s, e)
      [] handler = "WriteCache._handle_writeback_complete" ->
             handle_writeback_complete(s, e)
      [] OTHER -> s

\* One iteration of the loop of run: the least event is popped; a canceled
\* event is dropped, any other is dispatched.  An exception of the handler
\* leaves run, so that no further iteration follows.
LoopStep ==
    /\ Running
    /\ IF IsCanceled(NextEvent)
       THEN Commit([State EXCEPT !.ev_heap = @ \ {NextEvent}])
       ELSE Commit(call_handler(Begin(NextEvent), NextEvent))

Next == LoopStep

\* A caller that catches the exception of a call and goes on calling.
Caught(s) == [s EXCEPT !.fault = "none"]

\* The driver catches the exception that left run() and calls run() again: the
\* loop goes on with the events that are still queued.
RunAfterException ==
    /\ fault # "none"
    /\ Commit(Caught(State))

NextResume ==
    \/ LoopStep
    \/ RunAfterException

\* A client of the NAND scheduler: it submits transactions and calls
\* try_dispatch when it likes; an exception of a call reaches the client, which
\* goes on calling.
ClientSubmit ==
    /\ Len(txns) < NumTxn
    /\ \E ty \in NandTypes, pa \in ClientPAs, cb \in BOOLEAN :
          Commit(submit(Caught(State),
                        [NANDTransaction(ty, pa, 0, -1, 0, time_us)
                            EXCEPT !.callback = cb]))

ClientDispatch ==
    /\ queue # << >>
    /\ Commit(try_dispatch(Caught(State)))

NextNand ==
    \/ ClientSubmit
    \/ ClientDispatch

\* A client of the FTL: it allocates and looks up any key, and clears the
\* mapping.
ClientAllocate ==
    /\ counter < NumAlloc
    /\ \E k \in MapKeys : Commit(allocate(State, k))

ClientLookup ==
    /\ counter < NumAlloc
    /\ \E k \in MapKeys : Commit(lpa_to_ppa_state(State, k))

ClientClear ==
    /\ \E k \in MapKeys : mapping[k] # NoPA
    /\ Commit(clear(State))

NextFtl ==
    \/ ClientAllocate
    \/ ClientLookup
    \/ ClientClear

\* run(until_us) meets an event later than its bound: the event is pushed
\* back and the loop is left
StopAtBound ==
    /\ fault = "none"
    /\ ev_heap # {}
    /\ ~returned
    /\ ~WithinBound
    /\ returned' = TRUE
    /\ UNCHANGED << time_us, handlers, until_us, ev_heap, seq, requests, ncq,
                    ncq_size, sim_requests, completed_requests, cache, pages,
                    cache_busy, mapping, counter, queue, txns, die_busy,
                    chan_busy, dma_queue, num_reads, num_writes, fault, hist >>

\* run() is called again, without a bound
RunAgain ==
    /\ fault = "none"
    /\ returned
    /\ returned' = FALSE
    /\ until_us' = NoBound
    /\ UNCHANGED << time_us, handlers, ev_heap, seq, requests, ncq,
                    ncq_size, sim_requests, completed_requests, cache, pages,
                    cache_busy, mapping, counter, queue, txns, die_busy,
                    chan_busy, dma_queue, num_reads, num_writes, fault, hist >>

NextUntil ==
    \/ LoopStep
    \/ StopAtBound
    \/ RunAgain

\* the constructor has not run on this event loop yet
NotBuilt(regs) == handlers[regs[1][1]] # regs[1][2]

ConstructCache ==
    /\ fault = "none"
    /\ NotBuilt(CacheRegistrations)
    /\ Commit(cache_init(State))

ConstructFrontend ==
    /\ fault = "none"
    /\ NotBuilt(FrontendRegistrations)
    /\ Commit(frontend_init(State))

ClientRegister ==
    /\ fault = "none"
    /\ \E k \in ClientKinds, h \in ClientHandlers :
          Commit(register_handler(State, k, h))

NextHandlers ==
    \/ ConstructCache
    \/ ConstructFrontend
    \/ ClientRegister

Spec == Init /\ [][Next]_vars

SpecWide == InitWide /\ [][Next]_vars

SpecNcq == InitNcq /\ [][Next]_vars

SpecNand == InitNand /\ [][NextNand]_vars

SpecFlush == InitFlush /\ [][Next]_vars

SpecUntil == InitUntil /\ [][NextUntil]_vars

SpecResume == Init /\ [][NextResume]_vars

SpecWideResume == InitWide /\ [][NextResume]_vars

SpecHandlers == InitHandlers /\ [][NextHandlers]_vars

SpecFtl == InitFtl /\ [][NextFtl]_vars

\* ------------------------------------------------------------------------
\* Properties
\* ------------------------------------------------------------------------
Reqs == DOMAIN requests
IsRead(r) == requests[r].type = "READ"
IsWrite(r) == requests[r].type = "WRITE"
SameLba(a, b) == requests[a].lba = requests[b].lba

Before(q, a, b) == \E i, j \in 1 .. Len(q) : i < j /\ q[i] = a /\ q[j] = b

\* the request is issued by this step
IssuedNow(r) == hist.issued[r] = "none" /\ hist'.issued[r] # "none"
PutNow(r) == hist.issued[r] = "none" /\ hist'.issued[r] = "put"

ContainsAfter(lba) ==
    cache'[lba_to_lpa(lba)] # 0 /\ lba \in pages'[cache'[lba_to_lpa(lba)]].lbas

\* C1: a READ is not issued (neither to the cache nor to the NAND scheduler)
\* while a WRITE to the same LBA is ahead of it in the NCQ, whatever that
\* write's status; when it is issued and the cache holds its LBA, it is served
\* by cache.get.
C1_RawHazard ==
    [][\A r \in Reqs :
          (IsRead(r) /\ IssuedNow(r))
          => /\ \A w \in Reqs : (IsWrite(w) /\ SameLba(w, r)) => ~Before(ncq', w, r)
             /\ (ContainsAfter(requests[r].lba) => hist'.issued[r] = "get")]_vars

\* a READ waits in the NCQ, unissued, behind a WRITE to its LBA that was put
C1_Witness ==
    \E r, w \in Reqs :
        /\ IsRead(r) /\ IsWrite(w) /\ SameLba(w, r)
        /\ Before(ncq, w, r)
        /\ hist.issued[w] = "put"
        /\ requests[r].status = "READY" /\ hist.issued[r] = "none"

\* C2: a WRITE is put into the cache only after the CACHE_WRITE_COMPLETE of
\* every WRITE to the same LBA that entered the NCQ before it was dispatched.
C2_WawOrder ==
    [][\A w2 \in Reqs :
          (IsWrite(w2) /\ PutNow(w2))
          => \A w1 \in Reqs :
                (IsWrite(w1) /\ SameLba(w1, w2) /\ Before(hist'.arr, w1, w2))
                => w1 \in hist'.cwc]_vars

\* the first of two writes to one LBA is being written, and the second waits
\* behind it in the NCQ
C2_Witness ==
    \E w1, w2 \in Reqs :
        /\ IsWrite(w1) /\ IsWrite(w2) /\ SameLba(w1, w2)
        /\ Before(ncq, w1, w2)
        /\ hist.issued[w1] = "put" /\ w1 \notin hist.cwc
        /\ requests[w2].status = "READY" /\ hist.issued[w2] = "none"

\* C3: no step puts a WRITE into the cache while a READ of the same LBA that
\* is ahead of it in the NCQ is unissued (neither get nor a NAND READ started
\* for it).
C3_WarOrder ==
    [][\A w \in Reqs :
          (IsWrite(w) /\ PutNow(w))
          => \A r \in Reqs :
                (IsRead(r) /\ SameLba(r, w) /\ Before(ncq', r, w))
                => hist'.issued[r] # "none"]_vars

\* the CACHE_WRITE_COMPLETE of a write was dispatched while a READ and, behind
\* it, a WRITE to the LBA of the READ wait in the NCQ
C3_Witness ==
    /\ hist.last.ev_type = "CACHE_WRITE_COMPLETE"
    /\ \E r, w \in Reqs :
          /\ IsRead(r) /\ IsWrite(w) /\ SameLba(r, w) /\ Before(ncq, r, w)
          /\ hist.issued[r] = "none" /\ hist.issued[w] = "none"

\* C4: at most one transaction is in flight on a die, of two transactions
\* started on one die the later starts no earlier than the earlier completes,
\* and the "NAND die is busy" assertion never fails.
Txns == DOMAIN txns
SameDie(a, b) ==
    txns[a].pa.channel = txns[b].pa.channel /\ txns[a].pa.die = txns[b].pa.die
InFlight(c, d) ==
    {x \in Txns : txns[x].state = "inflight" /\ txns[x].pa.channel = c /\ txns[x].pa.die = d}

C4_DieExclusive ==
    /\ fault # "NAND die is busy"
    /\ \A c \in Channels :
          \A d \in DOMAIN die_busy[c] :
              /\ Cardinality(InFlight(c, d)) <= 1
              /\ (InFlight(c, d) # {}) => die_busy[c][d]
    /\ \A a, b \in Txns :
          (a # b /\ SameDie(a, b) /\ txns[a].state # "queued" /\ txns[b].state # "queued"
             /\ Before(hist.started, a, b))
          => (txns[a].state = "done" /\ txns[a].done_time <= txns[b].start_time)

\* a transaction is in flight on a die, and try_dispatch has left the head of
\* the queue, which targets the same die, where it was
C4_Witness ==
    /\ queue # << >>
    /\ hist.held = Head(queue)
    /\ \E a \in Txns : txns[a].state = "inflight" /\ SameDie(a, Head(queue))

\* C6: no pending, non-canceled event precedes the last dispatched event in
\* (time_us, seq) order or, at equal time_us, in the order of the
\* schedule_event calls; events scheduled by a handler at the current time
\* included.
C6_DispatchOrder ==
    \A e \in ev_heap :
        ~e.canceled
        => \/ e.time_us > hist.last.time_us
           \/ e.time_us = hist.last.time_us /\ e.seq > hist.last.seq
                /\ e.ord > hist.last.ord

\* the handler of REQUEST_COMPLETE has run and the FRONTEND_SCHEDULE event that
\* was scheduled after it for the same time is still pending
C6_Witness ==
    /\ hist.last.ev_type = "REQUEST_COMPLETE"
    /\ \E e \in ev_heap :
          /\ e.ev_type = "FRONTEND_SCHEDULE" /\ ~e.canceled
          /\ e.time_us = hist.last.time_us
          /\ e.ord = hist.last.ord + 1

\* C7: the handler of a canceled event is never invoked, and extracting a
\* canceled event changes nothing but the event queue.
C7_CanceledNeverFires ==
    /\ [](hist.fired \cap hist.canceled = {})
    /\ [][(Running /\ NextEvent.canceled)
            => /\ ev_heap' = ev_heap \ {NextEvent}
               /\ UNCHANGED << time_us, seq, requests, ncq, sim_requests,
                               completed_requests, cache, pages, cache_busy,
                               mapping, counter, queue, txns, die_busy,
                               chan_busy, dma_queue, num_reads, num_writes,
                               fault >>]_vars

\* a canceled event has been extracted and dropped
C7_Witness ==
    \E n \in hist.canceled :
        /\ n \notin hist.fired
        /\ \A e \in ev_heap : e.seq # n
        /\ \E e \in ev_heap : e.seq > n

Pages == DOMAIN pages
\* live CACHE_FLUSH_START events of the page that are pending
LiveFlushes(pid) ==
    {e \in ev_heap : /\ e.ev_type = "CACHE_FLUSH_START"
                     /\ e.payload = pid
                     /\ ~e.canceled}
WbTxns(pid) == {x \in Txns : txns[x].type = "WRITE" /\ txns[x].payload = pid}

\* the page was written, and every put to it but the first found it
\* FLUSH_SCHEDULED
Coalesced(pid) ==
    hist.page[pid].puts >= 1 /\ hist.page[pid].cancels = hist.page[pid].puts - 1

\* the call of run is over: the event queue is drained, an exception ended
\* the call, or the call returned at its bound
Ended == fault # "none" \/ ev_heap = {} \/ returned

\* C8: a put on a FLUSH_SCHEDULED page cancels the pending flush event and
\* leaves the page DIRTY; a canceled flush event never creates a NAND WRITE;
\* writes to one page, each admitted before the previous writeback delay
\* elapsed, produce exactly one NAND WRITE, submitted writeback_delay after the
\* last CACHE_WRITE_COMPLETE.
C8_RedirtyOneWrite ==
    /\ \A pid \in Pages : pages[pid].status = "DIRTY" => LiveFlushes(pid) = {}
    /\ \A x \in Txns : txns[x].type = "WRITE" => txns[x].origin \notin hist.canceled
    /\ \A pid \in Pages :
          Coalesced(pid)
          => /\ Cardinality(WbTxns(pid)) <= 1
             /\ \A x \in WbTxns(pid) :
                   txns[x].submit_time = hist.page[pid].last_cwc + writeback_delay
             /\ Ended => Cardinality(WbTxns(pid)) = 1

\* the WRITE transaction that the flush start builds for the page
WritebackOf(pid) ==
    NANDTransaction("WRITE", mapping[pages[pid].lpa], pid,
                    pages[pid].latest_flush_event.seq, hist.page[pid].puts,
                    pages[pid].latest_flush_event.time_us)

\* the cache as the completion handler finds it when the event ev, carrying
\* the writeback of the page, is dispatched
AfterCompletion(pid, ev) ==
    handle_writeback_complete([State EXCEPT !.txns = << WritebackOf(pid) >>], ev)

\* the NAND_WRITE_COMPLETE event that the event loop would create at time t
CompletionEvent(t) == Event(t, "NAND_WRITE_COMPLETE", 1, seq, hist.nsched)

\* the page object is no longer in the cache
Evicted(s, pid) == s.cache[pages[pid].lpa] # pid

HandlerEvents(pid) ==
    {Event(t, "NAND_WRITE_COMPLETE", 1, n, hist.nsched) :
        t \in {time_us, pages[pid].latest_flush_event.time_us}, n \in 0 .. seq}

CompletionPending(r) ==
    \E e \in ev_heap : e.ev_type = "REQUEST_COMPLETE" /\ e.payload = r /\ ~e.canceled

\* a NAND WRITE of the page of the request's LBA has completed
WritebackDone(r) ==
    \E x \in hist.wb_done : pages[txns[x].payload].lpa = lba_to_lpa(requests[r].lba)

\* C12: once its CACHE_WRITE_COMPLETE is dispatched, a WRITE without fua is
\* completed to the host at that time; a WRITE with fua gets no
\* REQUEST_COMPLETE then and is not completed before the NAND WRITE of its page
\* has completed.
C12_FuaCompletion ==
    \A r \in hist.cwc :
        IF requests[r].fua
        THEN WritebackDone(r)
             \/ (requests[r].status # "COMPLETED" /\ ~CompletionPending(r))
        ELSE \/ requests[r].status = "COMPLETED"
             \/ \E e \in ev_heap : /\ e.ev_type = "REQUEST_COMPLETE"
                                   /\ e.payload = r
                                   /\ e.time_us = time_us

\* the page has not been written in full
Partial(pid) == Cardinality(pages[pid].lbas) < lbas_per_page

\* the flush start of the page has been dispatched and got past its assertions
FlushStarted(pid) == pages[pid].status = "FLUSHING"

QueuedTypes == [i \in 1 .. Len(queue) |-> txns[queue[i]].type]

\* the only request issued so far is a WRITE whose CACHE_WRITE_COMPLETE was
\* dispatched
SingleWrite ==
    \E w \in hist.cwc : \A q \in Reqs \ {w} : hist.issued[q] = "none"

TxnsOfType(ty) == {x \in Txns : txns[x].type = ty}

\* C13: once the flush start of a page has been processed, the NAND queue
\* holds a READ followed by a WRITE when the page holds fewer than
\* lbas_per_page LBAs, and a WRITE alone when the page is full; a run in which
\* a single write was admitted ends with one NAND READ and one NAND WRITE.
C13_ReadModifyWrite ==
    /\ \A pid \in Pages :
          FlushStarted(pid)
          => QueuedTypes = IF Partial(pid) THEN << "READ", "WRITE" >> ELSE << "WRITE" >>
    /\ (Ended /\ SingleWrite)
          => /\ Cardinality(TxnsOfType("READ")) = 1
             /\ Cardinality(TxnsOfType("WRITE")) = 1

\* the transaction has been dispatched to its die
Started(x) == txns[x].state \in {"inflight", "done"}

\* a READ and the WRITE that depends on it, submitted together as a
\* read-modify-write submits them
RmwPair(y, x) ==
    /\ x = y + 1
    /\ txns[y].type = "READ" /\ txns[x].type = "WRITE"
    /\ txns[y].submit_time = txns[x].submit_time

\* C14: a transaction is not dispatched before the transaction it depends on
\* has completed: the WRITE of a read-modify-write is not started on its die
\* while the READ submitted ahead of it is queued or in flight.
C14_DependsOn ==
    \A x, y \in Txns :
        RmwPair(y, x) /\ Started(x)
        => txns[y].state = "done" /\ txns[y].done_time <= txns[x].start_time

\* C15: a flush event that is not its page's latest_flush_event is never
\* dispatched: every live pending CACHE_FLUSH_START is the latest one of its
\* page, and the flush start dispatched last was the latest flush event of a
\* page, so the WRITE a flush start builds comes from the latest flush event.
C15_FlushIsLatest ==
    /\ \A pid \in Pages : \A e \in LiveFlushes(pid) :
          EventEq(e, pages[pid].latest_flush_event)
    /\ hist.last.ev_type = "CACHE_FLUSH_START"
       => \E pid \in Pages :
             /\ pages[pid].latest_flush_event.seq = hist.last.seq
             /\ pages[pid].latest_flush_event.time_us = hist.last.time_us

\* the flush start dispatched last belongs to a page whose earlier flush event
\* was superseded by a put
C15_Witness ==
    /\ hist.last.ev_type = "CACHE_FLUSH_START"
    /\ \E pid \in Pages :
          /\ pages[pid].latest_flush_event.seq = hist.last.seq
          /\ hist.page[pid].cancels >= 1
          /\ FlushStarted(pid)

\* cache port operations in progress: get or put whose completion is pending
PortOps ==
    {e \in ev_heap : e.ev_type \in {"CACHE_READ_COMPLETE", "CACHE_WRITE_COMPLETE"}}

\* C16: at most one get or put is in progress, and the port is busy exactly
\* while one is; the assertions of get and put never fail.
C16_OnePortOperation ==
    /\ Cardinality(PortOps) <= 1
    /\ cache_busy <=> PortOps # {}
    /\ fault \notin {"Cache is busy", "LBA not in cache", "Cache is full"}

\* a put is in progress while a READY WRITE waits in the NCQ
C16_Witness ==
    /\ cache_busy
    /\ \E e \in PortOps : e.ev_type = "CACHE_WRITE_COMPLETE"
    /\ \E i \in 1 .. Len(ncq) :
          /\ IsWrite(ncq[i])
          /\ requests[ncq[i]].status = "READY"
          /\ hist.issued[ncq[i]] = "none"

\* C17: the number of resident cache pages never exceeds num_pages.
C17_CacheBound == Cardinality(Resident(State)) <= num_pages

\* the cache is full and idle, and a READY WRITE to a page that is not
\* resident waits in the NCQ
C17_Witness ==
    /\ Cardinality(Resident(State)) = num_pages
    /\ ~cache_busy
    /\ \E i \in 1 .. Len(ncq) :
          /\ IsWrite(ncq[i])
          /\ requests[ncq[i]].status = "READY"
          /\ cache[lba_to_lpa(requests[ncq[i]].lba)] = 0

\* NAND READ transactions created for the request
ReadTxns(r) == {x \in Txns : txns[x].type = "READ" /\ txns[x].payload = r}

\* C18: a READ issued while the cache contains its LBA is served by cache.get
\* and creates no NAND transaction, then or later.
C18_HitNoNandRead ==
    /\ [](\A r \in Reqs : hist.issued[r] = "get" => ReadTxns(r) = {})
    /\ [][\A r \in Reqs :
            (IsRead(r) /\ IssuedNow(r) /\ ContainsAfter(requests[r].lba))
            => /\ hist'.issued[r] = "get"
               /\ \A x \in DOMAIN txns' :
                     ~(txns'[x].type = "READ" /\ txns'[x].payload = r)]_vars

\* a READ that arrived after a WRITE to its LBA had completed was completed
\* from the cache without a NAND READ
C18_Witness ==
    \E r, w \in Reqs :
        /\ IsRead(r) /\ IsWrite(w) /\ SameLba(w, r)
        /\ requests[w].status = "COMPLETED"
        /\ requests[r].status = "COMPLETED"
        /\ requests[w].completion_time <= requests[r].enqueue_time
        /\ hist.issued[r] = "get"
        /\ ReadTxns(r) = {}

Rank(status) ==
    CASE status = "READY" -> 0
      [] status = "IN_PROGRESS" -> 1
      [] status = "COMPLETED" -> 2

\* this step hands the request to the cache (get or put) or to the NAND scheduler
IssuedStep(r) ==
    \/ \E e \in ev_heap' \ ev_heap :
          /\ e.ev_type \in {"CACHE_READ_COMPLETE", "CACHE_WRITE_COMPLETE"}
          /\ e.payload = r
    \/ \E x \in (DOMAIN txns') \ (DOMAIN txns) :
          txns'[x].type = "READ" /\ txns'[x].payload = r

\* C19: the status of a request never moves backwards along READY,
\* IN_PROGRESS, COMPLETED, and a request is issued to the cache or to the NAND
\* scheduler only when READY, which makes it IN_PROGRESS.
C19_StatusMonotonic ==
    [][\A r \in Reqs :
          /\ Rank(requests'[r].status) >= Rank(requests[r].status)
          /\ IssuedStep(r) => /\ requests[r].status = "READY"
                              /\ requests'[r].status = "IN_PROGRESS"]_vars

\* a request that was issued is COMPLETED while another waits READY in the NCQ
C19_Witness ==
    \E a, c \in Reqs :
        /\ requests[a].status = "COMPLETED" /\ hist.issued[a] # "none"
        /\ requests[c].status = "READY" /\ InSeq(ncq, c)

\* positions of the request in the completed log
Logged(r) == {i \in 1 .. Len(completed_requests) : completed_requests[i] = r}

\* events that lead to the completion of the request by the cache
CacheCompletions(r) ==
    {e \in ev_heap :
        /\ e.ev_type \in {"CACHE_READ_COMPLETE", "CACHE_WRITE_COMPLETE", "REQUEST_COMPLETE"}
        /\ e.payload = r}

PendingArrivals == {e \in ev_heap : e.ev_type = "REQUEST_ARRIVAL"}

C21_NcqBound ==
    /\ Len(ncq) <= ncq_size
    /\ Len(ncq) + Cardinality(PendingArrivals) <= ncq_size
    /\ fault # "NCQ is full"

\* the NCQ is full while requests of the trace are still kept back
C21_Witness ==
    /\ Len(ncq) = ncq_size
    /\ sim_requests # << >>

\* ------------------------------------------------------------------------
\* C22: no request enters the NCQ before its ready time: a request that has
\* arrived did so exactly at its ready time, and a completed request has
\* arrived and completed no earlier than it arrived.
\* ------------------------------------------------------------------------
Arrived(r) == requests[r].enqueue_time # -1

C22_ArrivalAfterReady ==
    \A r \in Reqs :
        /\ Arrived(r) => requests[r].enqueue_time = requests[r].arrival_time
        /\ requests[r].status = "COMPLETED" =>
               /\ Arrived(r)
               /\ requests[r].completion_time >= requests[r].enqueue_time
               /\ requests[r].enqueue_time >= requests[r].arrival_time

\* a request with a ready time after the start has arrived and completed
\* while requests of the trace are still kept back
C22_Witness ==
    /\ sim_requests # << >>
    /\ \E r \in Reqs :
          /\ requests[r].arrival_time > 0
          /\ requests[r].status = "COMPLETED"

\* ------------------------------------------------------------------------
\* C23: the NAND scheduler is strictly FIFO: only the head of its queue is
\* dispatched, and only when the head's die is ready, so transactions are
\* started in the order they were submitted; while the die of the head is
\* busy a call changes neither the queue nor the NAND, even when a later
\* transaction targets a die that is ready.
\* ------------------------------------------------------------------------
\* the head of the NAND queue targets a die that is ready
HeadReady == queue # << >> /\ is_ready(State, txns[Head(queue)].pa)

C23_FifoDispatch ==
    /\ [](fault # "NAND die is busy")
    /\ [](/\ hist.started = [i \in 1 .. Len(hist.started) |-> i]
          /\ queue = [i \in 1 .. Len(queue) |-> Len(hist.started) + i]
          /\ Len(hist.started) + Len(queue) = Len(txns))
    /\ [][hist'.started # hist.started =>
            /\ HeadReady
            /\ hist'.started = Append(hist.started, Head(queue))
            /\ queue' = Tail(queue)]_vars
    /\ [][(queue # << >> /\ ~HeadReady) =>
            /\ \/ queue' = queue
               \/ queue' = Append(queue, Len(txns) + 1)
            /\ UNCHANGED << die_busy, chan_busy, dma_queue, num_reads,
                            num_writes, ev_heap >>
            /\ \A x \in Txns : txns'[x] = txns[x]]_vars

\* try_dispatch has left the head, whose die is busy, in a queue in which a
\* later transaction targets a die that is ready
C23_Witness ==
    /\ Len(queue) >= 2
    /\ ~HeadReady
    /\ hist.held = Head(queue)
    /\ \E i \in 2 .. Len(queue) : is_ready(State, txns[queue[i]].pa)

\* ------------------------------------------------------------------------
\* C24: both schedulers are re-run after every dispatched event, so between
\* two dispatches the head of the NAND queue never targets a ready die, and no
\* READY request of the NCQ is one the frontend scheduler would issue.
\* ------------------------------------------------------------------------
\* what _schedule would do with the request at position i of the NCQ
Issuable(i) ==
    LET r == requests[ncq[i]] IN
    /\ r.status = "READY"
    /\ \/ /\ r.type = "READ"
          /\ ~\E j \in 1 .. (i - 1) :
                requests[ncq[j]].type = "WRITE" /\ requests[ncq[j]].lba = r.lba
          /\ contains(State, r.lba) => ~cache_busy
       \/ /\ r.type = "WRITE"
          /\ ~cache_busy
          /\ can_hold(State, r.lba)

C24_NoIdleWork ==
    fault = "none" => ~HeadReady /\ \A i \in 1 .. Len(ncq) : ~Issuable(i)

\* ------------------------------------------------------------------------
\* C25: transfers requested on a busy channel wait in request order; when a
\* transfer completes while others wait, the handler starts the oldest of
\* them and the channel stays busy.
\* ------------------------------------------------------------------------
Waiting(x) == InSeq(dma_queue[txns[x].pa.channel], x)
DieBusy(x) == die_busy[txns[x].pa.channel][txns[x].pa.die]

\* the WRITE for which the channel was taken
Transferring(c) ==
    {x \in Txns : /\ txns[x].type = "WRITE" /\ txns[x].state = "inflight"
                  /\ txns[x].pa.channel = c /\ ~Waiting(x)}

\* the DMA_COMPLETE of a transfer, delivered now
DmaCompletion(x) == Event(time_us, "DMA_COMPLETE", x, seq, hist.nsched)

C25_DmaFifo ==
    \A c \in Channels :
        /\ dma_queue[c] # << >> => chan_busy[c]
        /\ \A i, j \in 1 .. Len(dma_queue[c]) : i < j => dma_queue[c][i] < dma_queue[c][j]
        /\ \A x \in Transferring(c) :
              dma_queue[c] # << >> =>
                 LET after == handle_dma_complete(Caught(State), DmaCompletion(x)) IN
                 /\ after.chan_busy[c]
                 /\ after.dma_queue[c] = Tail(dma_queue[c])
                 /\ \E e \in after.ev_heap :
                       /\ e.ev_type = "DMA_COMPLETE"
                       /\ e.payload = Head(dma_queue[c])
                       /\ e.time_us = time_us + dma_us

\* ------------------------------------------------------------------------
\* C26: a NAND READ is an array read, then a transfer, then the completion.
\* From read_page on the die is busy, and the READ is in its array read, with
\* the end of the read_us delay on the event queue, or in its transfer,
\* waiting for the channel or with its DMA_COMPLETE on the event queue.
\* ------------------------------------------------------------------------
\* kinds of event whose payload is a transaction
TransactionEvents == {"NAND_READ_COMPLETE", "NAND_WRITE_COMPLETE", "DMA_COMPLETE"}

EventsOf(x) == {e \in ev_heap : e.ev_type \in TransactionEvents /\ e.payload = x}

C26_ReadPhases ==
    \A x \in Txns :
        (txns[x].type = "READ" /\ txns[x].state = "inflight") =>
            /\ DieBusy(x)
            /\ \/ \E e \in EventsOf(x) : e.time_us = txns[x].start_time + read_us
               \/ Waiting(x)
               \/ \E e \in EventsOf(x) : e.ev_type = "DMA_COMPLETE"

\* ------------------------------------------------------------------------
\* C27: a NAND WRITE is a transfer, then the program, then the completion.
\* From write_page on the die is busy, and the WRITE is in its transfer,
\* waiting for the channel or with its DMA_COMPLETE on the event queue, or in
\* its program delay, with the end of the delay on the event queue.
\* ------------------------------------------------------------------------
C27_WritePhases ==
    \A x \in Txns :
        (txns[x].type = "WRITE" /\ txns[x].state = "inflight") =>
            /\ DieBusy(x)
            /\ \/ Waiting(x)
               \/ \E e \in EventsOf(x) :
                     e.ev_type = "DMA_COMPLETE" /\ e.time_us >= txns[x].start_time + dma_us
               \/ \E e \in EventsOf(x) :
                     e.time_us >= txns[x].start_time + dma_us + program_us

\* ------------------------------------------------------------------------
\* C28: a FLUSH in the NCQ blocks every request behind it until the NAND
\* queue is empty and no cache page is FLUSH_SCHEDULED or FLUSHING; the FLUSH
\* is completed when that holds, so no run ends with a FLUSH that arrived and
\* was not completed.
\* ------------------------------------------------------------------------
IsFlush(r) == requests[r].type = "FLUSH"

Drained ==
    /\ queue = << >>
    /\ \A pid \in DOMAIN pages : pages[pid].status \notin {"FLUSH_SCHEDULED", "FLUSHING"}

C28_FlushDrains ==
    /\ [](\A i, j \in 1 .. Len(ncq) :
            i < j /\ IsFlush(ncq[i]) => requests[ncq[j]].status = "READY")
    /\ [](\A f \in Reqs :
            IsFlush(f) /\ Arrived(f) /\ Ended => requests[f].status = "COMPLETED")
    /\ [][\A f \in Reqs :
            (IsFlush(f) /\ requests[f].status # "COMPLETED"
                        /\ requests'[f].status = "COMPLETED") => Drained']_vars

\* ------------------------------------------------------------------------
\* C29: the walk over the NCQ that meets a FLUSH raises NotImplementedError,
\* and the step in which it does leaves the status of every request, the
\* cache, the NAND queue and the events still to be dispatched as they were.
\* ------------------------------------------------------------------------
C29_UnsupportedFlush ==
    /\ [](\A i \in 1 .. Len(ncq) : IsFlush(ncq[i]) => fault = "NotImplementedError")
    /\ [][(fault = "none" /\ fault' = "NotImplementedError") =>
            /\ \A r \in Reqs : requests'[r].status = requests[r].status
            /\ cache' = cache
            /\ pages' = pages
            /\ cache_busy' = cache_busy
            /\ queue' = queue
            /\ txns' = txns
            /\ ev_heap' = ev_heap \ {NextEvent}]_vars

\* the walk was aborted by a FLUSH behind a request that was still READY
C29_Witness ==
    /\ fault = "NotImplementedError"
    /\ \E i, j \in 1 .. Len(ncq) :
          /\ i < j
          /\ IsFlush(ncq[j])
          /\ requests[ncq[i]].status = "READY"

\* ------------------------------------------------------------------------
\* C30: the clock never decreases.  It is the time of the last event that was
\* dispatched (0 before the first), it moves only in a step that dispatches an
\* event that is not canceled, and every event on the queue, scheduled before
\* the run or by a handler, is at or after the clock.
\* ------------------------------------------------------------------------
C30_ClockMonotonic ==
    /\ [](time_us = IF hist.last = NoDispatch THEN 0 ELSE hist.last.time_us)
    /\ [](\A e \in ev_heap : e.time_us >= time_us)
    /\ [][/\ time_us' >= time_us
          /\ time_us' # time_us =>
                /\ ~NextEvent.canceled
                /\ time_us' = NextEvent.time_us
                /\ hist'.last.seq = NextEvent.seq
          /\ (Running /\ NextEvent.canceled) => time_us' = time_us]_vars

\* a canceled arrival was taken off the queue while the clock was before its
\* time: the clock did not move
C30_Witness ==
    \E n \in hist.canceled :
        /\ \A e \in ev_heap : e.seq # n
        /\ requests[n + 1].arrival_time > time_us

\* ------------------------------------------------------------------------
\* C31: run(until_us) leaves its loop at the first event later than the bound.
\* While it runs the clock and the time of every dispatched event are at most
\* the bound; the step that leaves the loop changes nothing, so the event and
\* all later ones stay queued with their canceled flags; a call of run()
\* afterwards dispatches the least event of the queue at every step, and every
\* event ever scheduled is on the queue, was dispatched, or was canceled.
\* ------------------------------------------------------------------------
C31_RunUntil ==
    /\ [](until_us # NoBound => time_us <= until_us /\ hist.last.time_us <= until_us)
    /\ [](returned => \A e \in ev_heap : e.time_us > until_us)
    /\ [][(returned' /\ ~returned) =>
            /\ ev_heap' = ev_heap
            /\ time_us' = time_us
            /\ hist' = hist]_vars
    /\ [][hist'.last # hist.last =>
            /\ \A e \in ev_heap : e = NextEvent \/ EventLess(NextEvent, e)
            /\ ~NextEvent.canceled
            /\ hist'.last.seq = NextEvent.seq
            /\ hist'.last.time_us = NextEvent.time_us]_vars
    /\ [](\A n \in 0 .. (seq - 1) :
            \/ \E e \in ev_heap : e.seq = n
            \/ n \in hist.fired
            \/ n \in hist.canceled)

\* run(until_us) returned at its bound and the run() that followed has
\* dispatched an event later than any bound
C31_Witness ==
    /\ until_us = NoBound
    /\ ~returned
    /\ fault = "none"
    /\ hist.last.time_us > writeback_delay

\* ------------------------------------------------------------------------
\* C32: a kind that has a handler keeps that handler: a second registration
\* for it raises and changes nothing in the table.  The kinds registered by
\* the cache and by the frontend are disjoint, so a table that holds only
\* their handlers was built without an error.
\* ------------------------------------------------------------------------
Collision == fault = "Handler already registered"

OnlyComponents ==
    \A k \in EventTypes : handlers[k] \in {"none", ComponentHandlers[k]}

C32_HandlerCollision ==
    /\ [][\A k \in EventTypes :
            handlers[k] # "none" => handlers'[k] = handlers[k]]_vars
    /\ [](fault = "none" =>
            \A k \in EventTypes, h \in ClientHandlers :
                handlers[k] # "none" =>
                    /\ register_handler(State, k, h).fault = "Handler already registered"
                    /\ register_handler(State, k, h).handlers = handlers)
    /\ [](fault = "none" /\ OnlyComponents =>
            /\ NotBuilt(CacheRegistrations) => cache_init(State).fault = "none"
            /\ NotBuilt(FrontendRegistrations) => frontend_init(State).fault = "none")
    /\ [](Collision => \E k \in EventTypes : handlers[k] # "none")

\* the frontend was constructed after a client had registered a handler for
\* REQUEST_ARRIVAL: the constructor raised and the client's handler stays
C32_Witness ==
    /\ Collision
    /\ handlers["REQUEST_ARRIVAL"] \in ClientHandlers
    /\ \A i \in 1 .. Len(CacheRegistrations) :
          handlers[CacheRegistrations[i][1]] = CacheRegistrations[i][2]

\* ------------------------------------------------------------------------
\* C33: allocate maps its key to a physical address that no earlier call
\* returned and changes no other key's mapping; so no two keys are mapped to
\* the same address.
\* ------------------------------------------------------------------------
Mapped == {k \in MapKeys : mapping[k] # NoPA}
Allocations == 1 .. Len(hist.allocated)

C33_FreshAllocation ==
    /\ \A i, j \in Allocations : i # j => hist.allocated[i] # hist.allocated[j]
    /\ \A k \in Mapped : \E i \in Allocations : mapping[k] = hist.allocated[i]
    /\ \A k1, k2 \in Mapped : k1 # k2 => mapping[k1] # mapping[k2]
    /\ \A k \in MapKeys :
          LET after == allocate(State, k) IN
          /\ \A i \in Allocations : after.mapping[k] # hist.allocated[i]
          /\ after.mapping[k] = after.hist.allocated[Len(after.hist.allocated)]
          /\ \A j \in MapKeys \ {k} : after.mapping[j] = mapping[j]

\* three keys are mapped after more allocations than that: a key was
\* allocated again, or the mapping was cleared in between
C33_Witness ==
    /\ Cardinality(Mapped) >= 3
    /\ Len(hist.allocated) > Cardinality(Mapped)

\* ------------------------------------------------------------------------
\* C34: lpa_to_ppa is a lookup: it returns the address mapped for the key, or
\* none when the key was never allocated, and leaves the mapping and the
\* allocation counter as they were.
\* ------------------------------------------------------------------------
C34_PureLookup ==
    \A k \in MapKeys :
        /\ lpa_to_ppa(State, k) = mapping[k]
        /\ lpa_to_ppa_state(State, k).mapping = mapping
        /\ lpa_to_ppa_state(State, k).counter = counter

C37_RunsToCompletion ==
    Ended =>
        /\ \A r \in Reqs : requests[r].status = "COMPLETED"
        /\ ncq = << >>
        /\ queue = << >>
        /\ \A c \in Channels : ~chan_busy[c] /\ \A d \in Dies : ~die_busy[c][d]

\* ------------------------------------------------------------------------
\* C38: when the run has ended, every WRITE whose CACHE_WRITE_COMPLETE was
\* dispatched is covered by a completed NAND WRITE of its logical page that
\* was submitted at or after that dispatch.
\* ------------------------------------------------------------------------
\* time of the request's CACHE_WRITE_COMPLETE: its REQUEST_COMPLETE is
\* scheduled for the same time
CwcTime(r) ==
    IF requests[r].status = "COMPLETED" THEN requests[r].completion_time
    ELSE time_us

Covered(r) ==
    \E x \in hist.wb_done :
        /\ pages[txns[x].payload].lpa = lba_to_lpa(requests[r].lba)
        /\ txns[x].submit_time >= CwcTime(r)

C38_WriteCovered ==
    Ended => \A r \in hist.cwc : Covered(r)

\* ------------------------------------------------------------------------
\* C39: a resident page is FLUSH_SCHEDULED exactly when one live
\* CACHE_FLUSH_START for it is pending, and that event is the page's
\* latest_flush_event; a resident DIRTY or FLUSHING page has no live pending
\* CACHE_FLUSH_START.
\* ------------------------------------------------------------------------
ResidentPages == {pid \in Pages : cache[pages[pid].lpa] = pid}

C39_FlushScheduledEvent ==
    \A pid \in ResidentPages :
        /\ pages[pid].status = "FLUSH_SCHEDULED"
              <=> /\ Cardinality(LiveFlushes(pid)) = 1
                  /\ \A e \in LiveFlushes(pid) :
                        EventEq(e, pages[pid].latest_flush_event)
        /\ pages[pid].status \in {"DIRTY", "FLUSHING"} => LiveFlushes(pid) = {}

\* the flush of a resident page is scheduled and pending
C39_Witness ==
    \E pid \in ResidentPages :
        /\ pages[pid].status = "FLUSH_SCHEDULED"
        /\ Cardinality(LiveFlushes(pid)) = 1

\* ------------------------------------------------------------------------
\* C40: the cache is busy exactly when one CACHE_READ_COMPLETE or
\* CACHE_WRITE_COMPLETE is pending; the page of a dispatched
\* CACHE_WRITE_COMPLETE is resident, so its lookup does not fail; and the busy
\* flag is cleared again: no run ends with the cache busy.
\* ------------------------------------------------------------------------
C40_BusyCleared ==
    /\ cache_busy <=> Cardinality(PortOps) = 1
    /\ ~cache_busy <=> PortOps = {}
    /\ fault # "KeyError"
    /\ \A e \in PortOps :
          e.ev_type = "CACHE_WRITE_COMPLETE" =>
              cache[lba_to_lpa(requests[e.payload].lba)] # 0
    /\ Ended => ~cache_busy

====
